---------------------------- MODULE Spec2Model ----------------------------
(***************************************************************************)
(* Model of the playlist converter's SoundCloud search: the resilience     *)
(* primitives CircuitBreaker, RateLimiter, timeout_context and             *)
(* retry_with_exponential_backoff (backend/app/services/utils.py) and      *)
(* SoundCloudService.search_track (backend/app/services/soundcloud.py),    *)
(* and the track loop of convert_playlist (backend/app/main.py).           *)
(*                                                                         *)
(* Time is an integer number of clock ticks.  The code only ever reads     *)
(* differences of time.time() values, so the model keeps every time stamp  *)
(* relative to the current instant `now`: a tick of the clock moves the    *)
(* stored time stamps one tick into the past.  A stamp is aged only as far  *)
(* as the code can tell its age from a greater one.                        *)
(* Statistics counters are Python ints; no branch of the code reads them,  *)
(* and the model lets them saturate at MaxStat.                            *)
(***************************************************************************)
EXTENDS Integers, Sequences, FiniteSets, TLC

VARIABLES
    circuit_breaker,  \* the fields of one CircuitBreaker object
    cbLast,           \* history: the last CircuitBreaker call, its result, call parity
    cbStreak,         \* history: record_failure calls since Closed with zero failures
    cbProbes,         \* history: callers admitted in the current HALF-OPEN episode
    cbHalfFail,       \* history: time of the last record_failure made while HALF-OPEN
    rate_limiter,     \* the fields of one RateLimiter object
    rlPc,             \* per waiter: "idle", or "sleeping" inside wait_for_token
    rlArg,            \* per waiter: the tokens argument of its wait_for_token call
    rlWake,           \* per waiter: the time its asyncio.sleep ends
    rlLast,           \* history: the last acquire call, its result, call parity
    rlGranted,        \* history: acquire(1) calls granted since time last advanced
    retry,            \* the locals of one retry_with_exponential_backoff call
    rtCalls,          \* history: the outcome of each invocation of func, in order
    rtSleeps,         \* history: the length of each asyncio.sleep, in order
    service,          \* the other fields of the SoundCloudService object
    search,           \* the arguments, locals and position of one search_track call
    srLog             \* history: what the search_track call has done so far

cbVars == <<circuit_breaker, cbLast, cbStreak, cbProbes, cbHalfFail>>
rlVars == <<rate_limiter, rlPc, rlArg, rlWake, rlLast, rlGranted>>
rtVars == <<retry, rtCalls, rtSleeps>>
scVars == <<service, search, srLog>>
vars == <<cbVars, rlVars, rtVars, scVars>>

---------------------------------------------------------------------------
(* Bounds of the model *)

Min(a, b) == IF a <= b THEN a ELSE b
Max(a, b) == IF a >= b THEN a ELSE b

MaxThreshold == 3
MaxCooling == 2
MaxStat == 1
\* rate, in token units per tick
MaxRate == 2
\* burst, in tokens
MaxBurst == 2
\* the tokens argument of a call
MaxTokens == 2
\* tasks that can be suspended inside wait_for_token at the same time
NumWaiters == 1
\* max_retries, the delays and the backoff factor of a retry call
MaxRetries == 3
MaxDelay == 3
MaxBackoff == 2

\* The service builds RateLimiter(rate=0.5, burst=3): with a tick of one
\* second the bucket moves in half tokens, TokenUnits units to the token,
\* ServiceRate units per tick
TokenUnits == 2
ServiceRate == 1
ServiceBurst == 3

\* wait_for_token sleeps between 0.1 and 5 seconds; a sleep lasts a whole
\* number of ticks
MinSleep == 1
MaxSleep == 5

\* The service builds CircuitBreaker(failure_threshold=3, cooling_period=30.0)
FailureThreshold == 3
CoolingPeriod == 30

Horizon == Max(Max(MaxCooling, CoolingPeriod) + 2, Max(MaxBurst, ServiceBurst) * TokenUnits)

\* time.time(): the current instant
now == Horizon
MaxFailures == MaxThreshold + 1

\* stats[...] += 1, saturating
Bump(x) == Min(x + 1, MaxStat)

\* a time stamp after one tick of the clock; lo is the oldest age told apart
Slide(t, lo) == Max(t - 1, lo)

\* a time stamp after d ticks of the clock, for a stamp whose age the code
\* compares with spans of at most `span` ticks: once older than that it stays
Aged(t, d, span) == Max(t - d, Min(t, now - span))

---------------------------------------------------------------------------
(* CircuitBreaker *)

\* state is one of "CLOSED", "OPEN", "HALF-OPEN"
CircuitBreaker(failure_threshold, cooling_period) ==
    [ failure_threshold |-> failure_threshold,
      cooling_period    |-> cooling_period,
      failures          |-> 0,
      state             |-> "CLOSED",
      last_failure_time |-> 0,
      stats |-> [ total_calls |-> 0, successful_calls |-> 0, failed_calls |-> 0,
                  rejected_calls |-> 0, circuit_opened_count |-> 0 ] ]

\* faulty variant: the failure count is reset only by the closing success
record_success_keeps_failures(cb) ==
    [cb EXCEPT !.failures = IF cb.state = "HALF-OPEN" THEN 0 ELSE @,
               !.state = IF cb.state = "HALF-OPEN" THEN "CLOSED" ELSE @,
               !.stats.successful_calls = Bump(@)]

\* faulty variant: a success closes the circuit from any state
record_success_closes_open(cb) ==
    [cb EXCEPT !.failures = 0,
               !.state = "CLOSED",
               !.stats.successful_calls = Bump(@)]

record_success(cb) ==
    [cb EXCEPT !.failures = 0,
               !.state = IF cb.state = "HALF-OPEN" THEN "CLOSED" ELSE @,
               !.stats.successful_calls = Bump(@)]

\* faulty variant: the threshold comparison is > instead of >=
record_failure_off_by_one(cb, t) ==
    LET c == [cb EXCEPT !.failures = Min(@ + 1, MaxFailures),
                        !.last_failure_time = t,
                        !.stats.failed_calls = Bump(@)]
    IN  IF c.state = "CLOSED" /\ c.failures > c.failure_threshold
          THEN [c EXCEPT !.state = "OPEN", !.stats.circuit_opened_count = Bump(@)]
          ELSE IF c.state = "HALF-OPEN"
                 THEN [c EXCEPT !.state = "OPEN", !.last_failure_time = t]
                 ELSE c

\* faulty variant: the HALF-OPEN branch is missing
record_failure_no_reopen(cb, t) ==
    LET c == [cb EXCEPT !.failures = Min(@ + 1, MaxFailures),
                        !.last_failure_time = t,
                        !.stats.failed_calls = Bump(@)]
    IN  IF c.state = "CLOSED" /\ c.failures >= c.failure_threshold
          THEN [c EXCEPT !.state = "OPEN", !.stats.circuit_opened_count = Bump(@)]
          ELSE c

\* faulty variant: a failure reported while OPEN does not restart the cooling
record_failure_keeps_time(cb, t) ==
    LET c == [cb EXCEPT !.failures = Min(@ + 1, MaxFailures),
                        !.last_failure_time = IF cb.state = "OPEN" THEN @ ELSE t,
                        !.stats.failed_calls = Bump(@)]
    IN  IF c.state = "CLOSED" /\ c.failures >= c.failure_threshold
          THEN [c EXCEPT !.state = "OPEN", !.stats.circuit_opened_count = Bump(@)]
          ELSE IF c.state = "HALF-OPEN"
                 THEN [c EXCEPT !.state = "OPEN", !.last_failure_time = t]
                 ELSE c

\* failures is a Python int; it is only compared with failure_threshold, and
\* MaxFailures > MaxThreshold, so saturating it changes no comparison
record_failure(cb, t) ==
    LET c == [cb EXCEPT !.failures = Min(@ + 1, MaxFailures),
                        !.last_failure_time = t,
                        !.stats.failed_calls = Bump(@)]
    IN  IF c.state = "CLOSED" /\ c.failures >= c.failure_threshold
          THEN [c EXCEPT !.state = "OPEN", !.stats.circuit_opened_count = Bump(@)]
          ELSE IF c.state = "HALF-OPEN"
                 THEN [c EXCEPT !.state = "OPEN", !.last_failure_time = t]
                 ELSE c

\* faulty variant: a rejected call is counted as one more failure
can_execute_counts_rejection(cb, t) ==
    LET c == [cb EXCEPT !.stats.total_calls = Bump(@)]
    IN  IF c.state = "CLOSED"
          THEN [ret |-> TRUE, cb |-> c]
          ELSE IF c.state = "OPEN"
                 THEN IF t - c.last_failure_time >= c.cooling_period
                        THEN [ret |-> TRUE, cb |-> [c EXCEPT !.state = "HALF-OPEN"]]
                        ELSE [ret |-> FALSE,
                              cb |-> [c EXCEPT !.stats.rejected_calls = Bump(@),
                                               !.failures = Min(@ + 1, MaxFailures),
                                               !.last_failure_time = t]]
                 ELSE [ret |-> TRUE, cb |-> c]

\* the value returned and the object after the call
can_execute(cb, t) ==
    LET c == [cb EXCEPT !.stats.total_calls = Bump(@)]
    IN  IF c.state = "CLOSED"
          THEN [ret |-> TRUE, cb |-> c]
          ELSE IF c.state = "OPEN"
                 THEN IF t - c.last_failure_time >= c.cooling_period
                        THEN [ret |-> TRUE, cb |-> [c EXCEPT !.state = "HALF-OPEN"]]
                        ELSE [ret |-> FALSE,
                              cb |-> [c EXCEPT !.stats.rejected_calls = Bump(@)]]
                 ELSE [ret |-> TRUE, cb |-> c]

\* time.time() - last_failure_time is compared with cooling_period
CBSpan(cb) == cb.cooling_period + 1

\* the breaker d ticks later
AgedCB(cb, d) == [cb EXCEPT !.last_failure_time = Aged(@, d, CBSpan(cb))]

\* nobody has called the breaker
CBIdle(failure_threshold, cooling_period) ==
    /\ circuit_breaker = CircuitBreaker(failure_threshold, cooling_period)
    /\ cbLast = [op |-> "init", ret |-> TRUE, n |-> 0]
    /\ cbStreak = 0
    /\ cbProbes = 0
    /\ cbHalfFail = -1

---------------------------------------------------------------------------
(* RateLimiter.  `tokens` is a float in the code; the model counts it in   *)
(* units of 1/TokenUnits token, and `rate` in units per tick.              *)

\* tasks inside wait_for_token; 0 names any other caller of acquire
Waiters == 1..NumWaiters

RateLimiter(rate, burst, t) ==
    [ rate        |-> rate,
      burst       |-> burst,
      tokens      |-> burst * TokenUnits,
      last_refill |-> t,
      stats |-> [ allowed_requests |-> 0, limited_requests |-> 0,
                  total_requests |-> 0 ] ]

\* faulty variant: the bucket is refilled without the cap at burst
acquire_uncapped(rl, n, t) ==
    LET r == [rl EXCEPT !.stats.total_requests = Bump(@),
                        !.tokens = rl.tokens + (t - rl.last_refill) * rl.rate,
                        !.last_refill = t]
    IN  IF r.tokens >= n * TokenUnits
          THEN [ret |-> TRUE,
                rl |-> [r EXCEPT !.tokens = @ - n * TokenUnits,
                                 !.stats.allowed_requests = Bump(@)]]
          ELSE [ret |-> FALSE,
                rl |-> [r EXCEPT !.stats.limited_requests = Bump(@)]]

\* faulty variant: a granted request takes no token out of the bucket
acquire_no_subtract(rl, n, t) ==
    LET r == [rl EXCEPT !.stats.total_requests = Bump(@),
                        !.tokens = Min(rl.burst * TokenUnits,
                                       rl.tokens + (t - rl.last_refill) * rl.rate),
                        !.last_refill = t]
    IN  IF r.tokens >= n * TokenUnits
          THEN [ret |-> TRUE,
                rl |-> [r EXCEPT !.stats.allowed_requests = Bump(@)]]
          ELSE [ret |-> FALSE,
                rl |-> [r EXCEPT !.stats.limited_requests = Bump(@)]]

\* faulty variant: the comparison is > instead of >=
acquire_strict(rl, n, t) ==
    LET r == [rl EXCEPT !.stats.total_requests = Bump(@),
                        !.tokens = Min(rl.burst * TokenUnits,
                                       rl.tokens + (t - rl.last_refill) * rl.rate),
                        !.last_refill = t]
    IN  IF r.tokens > n * TokenUnits
          THEN [ret |-> TRUE,
                rl |-> [r EXCEPT !.tokens = @ - n * TokenUnits,
                                 !.stats.allowed_requests = Bump(@)]]
          ELSE [ret |-> FALSE,
                rl |-> [r EXCEPT !.stats.limited_requests = Bump(@)]]

\* faulty variant: the bucket is never refilled
acquire_no_refill(rl, n, t) ==
    LET r == [rl EXCEPT !.stats.total_requests = Bump(@),
                        !.last_refill = t]
    IN  IF r.tokens >= n * TokenUnits
          THEN [ret |-> TRUE,
                rl |-> [r EXCEPT !.tokens = @ - n * TokenUnits,
                                 !.stats.allowed_requests = Bump(@)]]
          ELSE [ret |-> FALSE,
                rl |-> [r EXCEPT !.stats.limited_requests = Bump(@)]]

\* the value returned and the object after the call; the body has no await,
\* so the call runs to its end before any other task runs
acquire(rl, n, t) ==
    LET r == [rl EXCEPT !.stats.total_requests = Bump(@),
                        !.tokens = Min(rl.burst * TokenUnits,
                                       rl.tokens + (t - rl.last_refill) * rl.rate),
                        !.last_refill = t]
    IN  IF r.tokens >= n * TokenUnits
          THEN [ret |-> TRUE,
                rl |-> [r EXCEPT !.tokens = @ - n * TokenUnits,
                                 !.stats.allowed_requests = Bump(@)]]
          ELSE [ret |-> FALSE,
                rl |-> [r EXCEPT !.stats.limited_requests = Bump(@)]]

\* (tokens - self.tokens) / self.rate clamped to [0.1, 5.0] seconds, in ticks
wait_time(rl, n) ==
    LET need == n * TokenUnits - rl.tokens
        w == (need + rl.rate - 1) \div rl.rate
    IN  Max(MinSleep, Min(w, MaxSleep))

\* one round of the loop of wait_for_token: acquire, and the sleep that
\* follows a refusal
wait_for_token(rl, n, t) ==
    LET a == acquire(rl, n, t)
    IN  [ret |-> a.ret, rl |-> a.rl,
         sleep |-> IF a.ret THEN 0 ELSE wait_time(a.rl, n)]

\* the time in which an empty bucket fills up: more elapsed time adds nothing
RLSpan(rl) == (rl.burst * TokenUnits + rl.rate - 1) \div rl.rate

\* the limiter d ticks later
AgedRL(rl, d) == [rl EXCEPT !.last_refill = Aged(@, d, RLSpan(rl))]

\* no task has called the limiter, which was constructed at time t
RLIdle(rate, burst, t) ==
    /\ rate_limiter = RateLimiter(rate, burst, t)
    /\ rlPc = [p \in Waiters |-> "idle"]
    /\ rlArg = [p \in Waiters |-> 1]
    /\ rlWake = [p \in Waiters |-> now]
    /\ rlLast = [task |-> 0, n |-> 0, ret |-> TRUE, returned |-> FALSE,
                 resumed |-> FALSE, k |-> 0]
    /\ rlGranted = 0

---------------------------------------------------------------------------
(* SoundCloudService: the object.  circuit_breaker and rate_limiter are its *)
(* fields of those names.                                                  *)

\* the per-search counters are Python ints; they saturate at MaxSearches
MaxSearches == 2
Count(x) == Min(x + 1, MaxSearches)

\* a candidate of a result page: its url, and whether its title and user name
\* equal the track and the artist searched for
Urls == {"u1", "u2"}
NoTrack == [url |-> "none", exact |-> FALSE]

\* __init__; browser tells whether self.browser is a driver and not None
SoundCloudService ==
    [ browser |-> FALSE, initialized |-> FALSE,
      search_stats |-> [ total_searches |-> 0, successful_searches |-> 0,
                         failed_searches |-> 0, timeout_searches |-> 0,
                         circuit_breaker_rejections |-> 0,
                         rate_limited_searches |-> 0 ] ]

\* the locals of search_track before a call
NoSearch ==
    [ pc |-> "idle", blacklisted_urls |-> {}, pages |-> <<>>, search_queries |-> 0,
      i |-> 0, need_browser_reset |-> FALSE, best_match |-> NoTrack,
      all_results |-> <<>>, sleep |-> 0, result |-> NoTrack, outcome |-> "none",
      raised |-> "none" ]

\* in one call: the browser.get, initialize_browser, cleanup, record_failure
\* and record_success calls made, the exception that ended the last query,
\* whether a token was taken, the time since
\* the limiter let the call pass; over all calls: the calls that have passed
\* the breaker and returned, and the parity of the number of calls
NoLog ==
    [ gets |-> 0, inits |-> 0, cleanups |-> 0, failures |-> 0, successes |-> 0,
      exc |-> "none", token |-> FALSE, elapsed |-> 0, completed |-> 0, n |-> 0 ]

\* no search has been made on the service
SCIdle ==
    /\ service = SoundCloudService
    /\ search = NoSearch
    /\ srLog = NoLog

---------------------------------------------------------------------------
(* retry_with_exponential_backoff.  Delays are whole ticks.  An invocation *)
(* of func returns a value or raises an exception of some kind; an         *)
(* exception carries the number of the invocation that raised it.          *)

Values == {"a", "b"}
Kinds == {"Transient", "Fatal"}
NoException == [kind |-> "None", id |-> 0]

\* the outcomes of one invocation of func, the id-th of the call
Outcomes(id) ==
    [ok : {TRUE}, val : Values, exc : {NoException}]
      \cup [ok : {FALSE}, val : {"none"}, exc : [kind : Kinds, id : {id}]]

\* the locals at the start of a call
retry_with_exponential_backoff(max_retries, initial_delay, max_delay, backoff_factor, exceptions) ==
    [ max_retries |-> max_retries, initial_delay |-> initial_delay,
      max_delay |-> max_delay, backoff_factor |-> backoff_factor,
      exceptions |-> exceptions,
      delay |-> initial_delay, last_exception |-> NoException, attempt |-> 0,
      pc |-> "loop", result |-> "none", raised |-> NoException ]

\* faulty variant: max_retries counts the retries after the first attempt
attempts_plus_one(r) == r.max_retries + 1

\* range(max_retries): the number of attempts
attempts(r) == r.max_retries

\* faulty variant: the except clause catches every exception
retry_attempt_catches_all(r, o) ==
    IF o.ok
      THEN [r EXCEPT !.pc = "returned", !.result = o.val]
      ELSE IF r.attempt = attempts(r) - 1
             THEN [r EXCEPT !.last_exception = o.exc, !.pc = "raised",
                            !.raised = o.exc]
             ELSE [r EXCEPT !.last_exception = o.exc, !.pc = "sleeping"]

\* the body of the loop up to its await asyncio.sleep, for outcome o of func
retry_attempt(r, o) ==
    IF o.ok
      THEN [r EXCEPT !.pc = "returned", !.result = o.val]
      ELSE IF o.exc.kind \in r.exceptions
             THEN IF r.attempt = attempts(r) - 1
                    THEN [r EXCEPT !.last_exception = o.exc, !.pc = "raised",
                                   !.raised = o.exc]
                    ELSE [r EXCEPT !.last_exception = o.exc, !.pc = "sleeping"]
             ELSE [r EXCEPT !.pc = "raised", !.raised = o.exc]

\* faulty variant: the next delay is not capped by max_delay
retry_backoff_uncapped(r) ==
    [r EXCEPT !.delay = r.delay * r.backoff_factor,
              !.attempt = r.attempt + 1,
              !.pc = "loop"]

\* after the sleep: the next delay and the next turn of the loop
retry_backoff(r) ==
    [r EXCEPT !.delay = Min(r.delay * r.backoff_factor, r.max_delay),
              !.attempt = r.attempt + 1,
              !.pc = "loop"]

\* a caller starts retry_with_exponential_backoff
RetryCall ==
    /\ retry.pc \in {"idle", "returned", "raised"}
    /\ \E m \in 0..MaxRetries, d \in 1..MaxDelay, md \in 1..MaxDelay,
          f \in 1..MaxBackoff, ex \in {{"Transient"}, Kinds} :
           retry' = retry_with_exponential_backoff(m, d, md, f, ex)
    /\ rtCalls' = <<>>
    /\ rtSleeps' = <<>>
    /\ UNCHANGED <<scVars, cbVars, rlVars>>

\* one turn of the loop: await func()
RetryInvoke ==
    /\ retry.pc = "loop"
    /\ retry.attempt < attempts(retry)
    /\ \E o \in Outcomes(Len(rtCalls) + 1) :
         /\ retry' = retry_attempt(retry, o)
         /\ rtCalls' = Append(rtCalls, o)
    /\ UNCHANGED <<scVars, cbVars, rlVars, rtSleeps>>

\* await asyncio.sleep(delay) ends
RetrySleep ==
    /\ retry.pc = "sleeping"
    /\ rtSleeps' = Append(rtSleeps, retry.delay)
    /\ retry' = retry_backoff(retry)
    /\ UNCHANGED <<scVars, cbVars, rlVars, rtCalls>>

\* the loop has ended without a return or a raise: raise last_exception.
\* Raising None is a TypeError of the interpreter.
RetryExhausted ==
    /\ retry.pc = "loop"
    /\ retry.attempt >= attempts(retry)
    /\ retry' = [retry EXCEPT !.pc = "raised",
                              !.raised = IF retry.last_exception = NoException
                                           THEN [kind |-> "TypeError", id |-> 0]
                                           ELSE retry.last_exception]
    /\ UNCHANGED <<scVars, cbVars, rlVars, rtCalls, rtSleeps>>

\* no call of retry_with_exponential_backoff has been made
RTIdle ==
    /\ retry = [retry_with_exponential_backoff(0, 1, 1, 1, Kinds) EXCEPT !.pc = "idle"]
    /\ rtCalls = <<>>
    /\ rtSleeps = <<>>

RetryInit ==
    /\ CBIdle(1, 1)
    /\ RLIdle(1, 1, 0)
    /\ RTIdle
    /\ SCIdle

RetryNext ==
    \/ RetryCall
    \/ RetryInvoke
    \/ RetrySleep
    \/ RetryExhausted

RetrySpec == RetryInit /\ [][RetryNext]_vars

---------------------------------------------------------------------------
(* The clock *)

\* One tick.  A sleep that has ended stays ended: its wake time is kept at now.
Tick ==
    /\ circuit_breaker' = AgedCB(circuit_breaker, 1)
    /\ cbHalfFail' = IF cbHalfFail < 0 THEN cbHalfFail
                                        ELSE Aged(cbHalfFail, 1, CBSpan(circuit_breaker))
    /\ rate_limiter' = AgedRL(rate_limiter, 1)
    /\ rlWake' = [p \in Waiters |-> Slide(rlWake[p], now)]
    /\ rlGranted' = 0
    /\ UNCHANGED <<cbLast, cbStreak, cbProbes, rlPc, rlArg, rlLast, rtVars, scVars>>

---------------------------------------------------------------------------
(* Any sequence of calls on one CircuitBreaker.  The three methods are     *)
(* plain (non-async) methods: on the event loop each call runs to its end  *)
(* before another task runs, so an interleaving of concurrent searches is  *)
(* a sequence of whole calls.                                              *)

CBInit ==
    /\ \E th \in 1..MaxThreshold, cp \in 1..MaxCooling : CBIdle(th, cp)
    /\ RLIdle(1, 1, 0)
    /\ RTIdle
    /\ SCIdle

ClosedAtZero(cb) == cb.state = "CLOSED" /\ cb.failures = 0

CBRecordSuccess ==
    /\ circuit_breaker' = record_success(circuit_breaker)
    /\ cbLast' = [op |-> "record_success", ret |-> TRUE, n |-> 1 - cbLast.n]
    /\ cbStreak' = IF ClosedAtZero(circuit_breaker') THEN 0 ELSE -1
    /\ cbProbes' = 0
    /\ UNCHANGED <<cbHalfFail, rlVars, rtVars, scVars>>

CBRecordFailure ==
    /\ circuit_breaker' = record_failure(circuit_breaker, now)
    /\ cbLast' = [op |-> "record_failure", ret |-> TRUE, n |-> 1 - cbLast.n]
    /\ cbStreak' = IF cbStreak < 0 THEN -1 ELSE Min(cbStreak + 1, MaxFailures)
    /\ cbProbes' = 0
    /\ cbHalfFail' = IF circuit_breaker.state = "HALF-OPEN" THEN now ELSE cbHalfFail
    /\ UNCHANGED <<rlVars, rtVars, scVars>>

CBCanExecute ==
    LET r == can_execute(circuit_breaker, now)
    IN  /\ circuit_breaker' = r.cb
        /\ cbLast' = [op |-> "can_execute", ret |-> r.ret, n |-> 1 - cbLast.n]
        /\ cbStreak' = IF r.cb.state = circuit_breaker.state THEN cbStreak ELSE -1
        /\ cbProbes' = IF r.cb.state = "HALF-OPEN" /\ r.ret
                         THEN Min(cbProbes + 1, 2) ELSE cbProbes
        /\ UNCHANGED <<cbHalfFail, rlVars, rtVars, scVars>>

CBNext ==
    \/ CBRecordSuccess
    \/ CBRecordFailure
    \/ CBCanExecute
    \/ Tick

CBSpec == CBInit /\ [][CBNext]_vars

---------------------------------------------------------------------------
(* Concurrent tasks calling acquire and wait_for_token on one RateLimiter. *)
(* A task is suspended only at the await asyncio.sleep of wait_for_token;  *)
(* acquire has no await, so calls of acquire by any number of tasks form a  *)
(* sequence of whole calls.                                                *)

RLInit ==
    /\ CBIdle(1, 1)
    /\ \E r \in 1..MaxRate, b \in 1..Max(MaxBurst, ServiceBurst) : RLIdle(r, b, now)
    /\ RTIdle
    /\ SCIdle

\* history of one acquire call by task p
RLRecord(p, n, ret, returned) ==
    /\ rlLast' = [task |-> p, n |-> n, ret |-> ret, returned |-> returned,
                  resumed |-> (p # 0 /\ rlPc[p] = "sleeping"), k |-> 1 - rlLast.k]
    /\ rlGranted' = IF ret /\ n = 1
                      THEN Min(rlGranted + 1, rate_limiter.burst + 1) ELSE rlGranted

\* some task that is not suspended calls acquire(n)
RLAcquire(n) ==
    LET a == acquire(rate_limiter, n, now)
    IN  /\ rate_limiter' = a.rl
        /\ RLRecord(0, n, a.ret, FALSE)
        /\ UNCHANGED <<cbVars, rlPc, rlArg, rlWake, rtVars, scVars>>

\* one round of task p's wait_for_token(n)
RLRound(p, n) ==
    LET w == wait_for_token(rate_limiter, n, now)
    IN  /\ rate_limiter' = w.rl
        /\ rlPc' = [rlPc EXCEPT ![p] = IF w.ret THEN "idle" ELSE "sleeping"]
        /\ rlArg' = [rlArg EXCEPT ![p] = IF w.ret THEN 1 ELSE n]
        /\ rlWake' = [rlWake EXCEPT ![p] = IF w.ret THEN now ELSE now + w.sleep]
        /\ RLRecord(p, n, w.ret, w.ret)
        /\ UNCHANGED <<cbVars, rtVars, scVars>>

\* task p calls wait_for_token(n): the first round runs at once
RLWaitForToken(p, n) ==
    /\ rlPc[p] = "idle"
    /\ RLRound(p, n)

\* task p's sleep has ended: the next round
RLResume(p) ==
    /\ rlPc[p] = "sleeping"
    /\ now >= rlWake[p]
    /\ RLRound(p, rlArg[p])

RLNext ==
    \/ \E n \in 1..MaxTokens : RLAcquire(n)
    \/ \E p \in Waiters, n \in 1..MaxTokens : RLWaitForToken(p, n)
    \/ \E p \in Waiters : RLResume(p)
    \/ Tick

RLSpec == RLInit /\ [][RLNext]_vars

\* the limiter of a SoundCloudService
RLServiceInit ==
    /\ CBIdle(1, 1)
    /\ RLIdle(ServiceRate, ServiceBurst, now)
    /\ RTIdle
    /\ SCIdle

\* the clock advances, and the event loop runs every task whose sleep has ended
RLFairSpec ==
    /\ RLServiceInit
    /\ [][RLNext]_vars
    /\ WF_vars(Tick)
    /\ \A p \in Waiters : WF_vars(RLResume(p))

---------------------------------------------------------------------------
(* SoundCloudService.search_track, called again and again by one owner, as  *)
(* convert_playlist does: the next search starts when the last has          *)
(* returned.  The task is suspended only in an asyncio.sleep; with no other *)
(* task on the service, the step that ends a sleep moves the clock by the   *)
(* length of the sleep.  The histories of the CircuitBreaker and            *)
(* RateLimiter sections record the calls of those sections' callers only.   *)

\* search_timeout, in ticks
SearchTimeout == 15
\* await asyncio.sleep(1) after the warm-up page of initialize_browser
WarmUp == 1
\* for retry in range(2): the tries of browser.get for one query
PageLoadTries == 2

Track(url, exact) == [url |-> url, exact |-> exact]

\* what SoundCloud would show for one query: whether the page loads, and the
\* tracks of the result list in order
Pages ==
    { [loads |-> FALSE, items |-> <<>>],
      [loads |-> TRUE, items |-> <<>>],
      [loads |-> TRUE, items |-> <<Track("u1", TRUE)>>],
      [loads |-> TRUE, items |-> <<Track("u2", FALSE), Track("u1", FALSE)>>] }

Blacklists == { {}, {"u1"} }

\* With `async with timeout_context(t)` the generator runs up to its first
\* yield inside __aenter__.  asyncio.wait_for(..., timeout=0) finds the
\* shielded sleep(0) not done yet, cancels it and raises asyncio.TimeoutError
\* before anything is yielded; the except clause swallows that, the generator
\* goes on to sleep timeout_seconds and raises TimeoutError, still inside
\* __aenter__.  The body of the with statement is never entered.
timeout_context(timeout_seconds) ==
    [entered |-> FALSE, slept |-> timeout_seconds, exc |-> "TimeoutError"]

\* the body of the with statement for one query: the exception it raises, the
\* browser.get calls it makes and need_browser_reset after it.  Line 474
\* calls normalize_text, which soundcloud.py neither defines nor imports: a
\* query with a usable track raises NameError before any track is scored.
query_body(s, page) ==
    LET track_infos == SelectSeq(page.items, LAMBDA c : c.url \notin s.blacklisted_urls)
    IN  IF ~page.loads
          THEN [exc |-> "none", gets |-> PageLoadTries, need_browser_reset |-> TRUE]
          ELSE [exc |-> IF track_infos = <<>> THEN "none" ELSE "NameError",
                gets |-> 1, need_browser_reset |-> s.need_browser_reset]

\* faulty variant: a query that timed out or failed ends the loop
search_query_aborts(s, page) ==
    LET tc == timeout_context(SearchTimeout)
        b == IF tc.entered THEN query_body(s, page)
                           ELSE [exc |-> tc.exc, gets |-> 0,
                                 need_browser_reset |-> s.need_browser_reset]
    IN  [ s |-> [s EXCEPT !.need_browser_reset = (b.exc # "none") \/ b.need_browser_reset,
                          !.i = IF b.exc # "none" THEN s.search_queries ELSE s.i + 1],
          exc |-> b.exc, gets |-> b.gets, slept |-> tc.slept ]

\* faulty variant: a query that timed out or failed is tried again
search_query_again(s, page) ==
    LET tc == timeout_context(SearchTimeout)
        b == IF tc.entered THEN query_body(s, page)
                           ELSE [exc |-> tc.exc, gets |-> 0,
                                 need_browser_reset |-> s.need_browser_reset]
    IN  [ s |-> [s EXCEPT !.need_browser_reset = (b.exc # "none") \/ b.need_browser_reset,
                          !.i = IF b.exc # "none" THEN s.i ELSE s.i + 1],
          exc |-> b.exc, gets |-> b.gets, slept |-> tc.slept ]

\* one turn of the loop over search_queries: the with statement and the two
\* except clauses, each of which ends in `continue`
search_query(s, page) ==
    LET tc == timeout_context(SearchTimeout)
        b == IF tc.entered THEN query_body(s, page)
                           ELSE [exc |-> tc.exc, gets |-> 0,
                                 need_browser_reset |-> s.need_browser_reset]
    IN  [ s |-> [s EXCEPT !.need_browser_reset = (b.exc # "none") \/ b.need_browser_reset,
                          !.i = s.i + 1],
          exc |-> b.exc, gets |-> b.gets, slept |-> tc.slept ]

\* faulty variant: a search that found nothing is counted as a timeout only
final_decision_miscounted(s) ==
    IF s.best_match # NoTrack
      THEN [result |-> s.best_match, outcome |-> "Match",
            counter |-> "successful_searches", report |-> "none"]
      ELSE IF s.all_results # <<>>
             THEN [result |-> s.all_results[1], outcome |-> "Fallback",
                   counter |-> "successful_searches", report |-> "none"]
             ELSE [result |-> NoTrack, outcome |-> "NotFound",
                   counter |-> "timeout_searches", report |-> "record_failure"]

\* faulty variant: a search that found nothing is not reported to the breaker
final_decision_silent(s) ==
    IF s.best_match # NoTrack
      THEN [result |-> s.best_match, outcome |-> "Match",
            counter |-> "successful_searches", report |-> "none"]
      ELSE IF s.all_results # <<>>
             THEN [result |-> s.all_results[1], outcome |-> "Fallback",
                   counter |-> "successful_searches", report |-> "none"]
             ELSE [result |-> NoTrack, outcome |-> "NotFound",
                   counter |-> "failed_searches", report |-> "none"]

\* the lines after the loop: the track returned (NoTrack for None), the
\* counter of search_stats incremented and the call made on the breaker
final_decision(s) ==
    IF s.best_match # NoTrack
      THEN [result |-> s.best_match, outcome |-> "Match",
            counter |-> "successful_searches", report |-> "none"]
      ELSE IF s.all_results # <<>>
             THEN [result |-> s.all_results[1], outcome |-> "Fallback",
                   counter |-> "successful_searches", report |-> "none"]
             ELSE [result |-> NoTrack, outcome |-> "NotFound",
                   counter |-> "failed_searches", report |-> "record_failure"]

\* faulty variant: the except clause re-raises after counting the failure
browser_init_failed_reraises(s) ==
    [result |-> NoTrack, outcome |-> "Raised", raised |-> "Exception",
     counter |-> "failed_searches", report |-> "record_failure"]

\* the except clause around the lazy initialize_browser: returns None
browser_init_failed(s) ==
    [result |-> NoTrack, outcome |-> "InitFailed", raised |-> "none",
     counter |-> "failed_searches", report |-> "record_failure"]

\* What initialize_browser can do on a service that is not initialized:
\* raise, or set up the driver and then sleep WarmUp after the warm-up page,
\* or set it up with the warm-up page failing (no sleep).  Line 89 reads
\* self._id, which no code of the repository assigns: on a service whose
\* owner has not set that attribute, every call raises.
InitOutcomes == {"raises", "ready", "warm"}

\* the service after initialize_browser with outcome o
initialize_browser(svc, o) ==
    IF svc.initialized THEN svc
    ELSE IF o = "raises" THEN [svc EXCEPT !.initialized = FALSE]
    ELSE [svc EXCEPT !.browser = TRUE, !.initialized = TRUE]

\* faulty variant: cleanup quits the browser and leaves _initialized set
cleanup_keeps_initialized(svc) ==
    IF svc.browser THEN [svc EXCEPT !.browser = FALSE] ELSE svc

\* the service after cleanup
cleanup(svc) ==
    IF svc.browser THEN [svc EXCEPT !.browser = FALSE, !.initialized = FALSE]
                   ELSE svc

\* self.search_stats[name] += 1
Counted(svc, name) == [svc EXCEPT !.search_stats[name] = Count(@)]

\* the longest time a call is followed for
MaxElapsed == 2 * SearchTimeout + 2 * WarmUp + 1

\* the log after d ticks
Later(log, d) == [log EXCEPT !.elapsed = IF log.token THEN Min(@ + d, MaxElapsed) ELSE @]

\* the log of a call that has returned
Returned(log) == [log EXCEPT !.completed = Min(@ + 1, FailureThreshold + 1)]

\* len(search_queries): track and primary artist, then the track alone
search_queries(artist_name) == IF artist_name THEN 2 ELSE 1

\* the call, up to the end of the first round of wait_for_token
SearchCall(artist_name, blacklisted_urls, pages) ==
    LET g == can_execute(circuit_breaker, now)
        a == acquire(rate_limiter, 1, now)
        w == wait_for_token(a.rl, 1, now)
        svc == Counted(service, "total_searches")
        s == [NoSearch EXCEPT !.blacklisted_urls = blacklisted_urls, !.pages = pages,
                              !.search_queries = search_queries(artist_name)]
        log == [NoLog EXCEPT !.completed = srLog.completed, !.n = 1 - srLog.n]
    IN  /\ search.pc \in {"idle", "done"}
        /\ Len(pages) = search_queries(artist_name)
        /\ circuit_breaker' = g.cb
        /\ IF ~g.ret
             THEN /\ service' = Counted(svc, "circuit_breaker_rejections")
                  /\ search' = [s EXCEPT !.pc = "done", !.outcome = "Rejected"]
                  /\ rate_limiter' = rate_limiter
                  /\ srLog' = log
             ELSE IF a.ret
                    THEN /\ service' = svc
                         /\ search' = [s EXCEPT !.pc = "init"]
                         /\ rate_limiter' = a.rl
                         /\ srLog' = [log EXCEPT !.token = TRUE]
                    ELSE /\ service' = Counted(svc, "rate_limited_searches")
                         /\ search' = [s EXCEPT !.pc = IF w.ret THEN "init" ELSE "waiting",
                                                !.sleep = w.sleep]
                         /\ rate_limiter' = w.rl
                         /\ srLog' = [log EXCEPT !.token = w.ret]
        /\ UNCHANGED <<cbLast, cbStreak, cbProbes, cbHalfFail, rlPc, rlArg, rlWake,
                       rlLast, rlGranted, rtVars>>

\* `if not self._initialized`: the lazy initialize_browser and its except clause
SearchInit ==
    /\ search.pc = "init"
    /\ \E o \in InitOutcomes :
         LET svc == initialize_browser(service, o)
             h == browser_init_failed(search)
         IN  IF service.initialized
               THEN /\ search' = [search EXCEPT !.pc = "query"]
                    /\ UNCHANGED <<service, circuit_breaker, srLog>>
               ELSE IF o = "raises"
                      THEN /\ circuit_breaker' = IF h.report = "record_failure"
                                                   THEN record_failure(circuit_breaker, now)
                                                   ELSE circuit_breaker
                           /\ service' = Counted(svc, h.counter)
                           /\ search' = [search EXCEPT !.pc = "done", !.result = h.result,
                                                       !.outcome = h.outcome,
                                                       !.raised = h.raised]
                           /\ srLog' = Returned([srLog EXCEPT !.inits = @ + 1,
                                       !.failures = IF h.report = "record_failure"
                                                      THEN @ + 1 ELSE @])
                      ELSE /\ service' = svc
                           /\ search' = [search EXCEPT
                                           !.pc = IF o = "warm" THEN "warmup" ELSE "query",
                                           !.sleep = IF o = "warm" THEN WarmUp ELSE 0]
                           /\ srLog' = [srLog EXCEPT !.inits = @ + 1]
                           /\ UNCHANGED circuit_breaker
    /\ UNCHANGED <<cbLast, cbStreak, cbProbes, cbHalfFail, rlVars, rtVars>>

\* an asyncio.sleep of the call ends: in wait_for_token (the next round
\* follows), or after the warm-up page of initialize_browser, called lazily
\* or from the finally clause
SearchWake ==
    LET d == search.sleep
        w == wait_for_token(AgedRL(rate_limiter, d), 1, now)
    IN  /\ search.pc \in {"waiting", "warmup", "resetting"}
        /\ circuit_breaker' = AgedCB(circuit_breaker, d)
        /\ IF search.pc = "waiting"
             THEN /\ rate_limiter' = w.rl
                  /\ search' = [search EXCEPT !.pc = IF w.ret THEN "init" ELSE "waiting",
                                              !.sleep = w.sleep]
                  /\ srLog' = [srLog EXCEPT !.token = w.ret]
             ELSE /\ rate_limiter' = AgedRL(rate_limiter, d)
                  /\ search' = [search EXCEPT
                                  !.pc = IF search.pc = "warmup" THEN "query" ELSE "done",
                                  !.sleep = 0]
                  /\ srLog' = IF search.pc = "warmup" THEN Later(srLog, d)
                                                      ELSE Returned(Later(srLog, d))
        /\ UNCHANGED <<service, cbLast, cbStreak, cbProbes, cbHalfFail, rlPc, rlArg,
                       rlWake, rlLast, rlGranted, rtVars>>

\* the next query of the loop
SearchQuery ==
    LET q == search_query(search, search.pages[search.i + 1])
    IN  /\ search.pc = "query"
        /\ search.i < search.search_queries
        /\ search' = q.s
        /\ service' = IF q.exc = "TimeoutError" THEN Counted(service, "timeout_searches")
                                                ELSE service
        /\ circuit_breaker' = AgedCB(circuit_breaker, q.slept)
        /\ rate_limiter' = AgedRL(rate_limiter, q.slept)
        /\ srLog' = Later([srLog EXCEPT !.gets = @ + q.gets, !.exc = q.exc], q.slept)
        /\ UNCHANGED <<cbLast, cbStreak, cbProbes, cbHalfFail, rlPc, rlArg, rlWake,
                       rlLast, rlGranted, rtVars>>

\* the loop has ended: the final decision, then the finally clause, which
\* resets the browser if need_browser_reset and swallows what the reset raises
SearchReturn ==
    LET f == final_decision(search)
        log == [srLog EXCEPT !.failures = IF f.report = "record_failure" THEN @ + 1 ELSE @,
                             !.successes = IF f.report = "record_success" THEN @ + 1 ELSE @]
        svc == Counted(service, f.counter)
    IN  /\ search.pc = "query"
        /\ search.i >= search.search_queries
        /\ circuit_breaker' = CASE f.report = "record_failure" -> record_failure(circuit_breaker, now)
                                 [] f.report = "record_success" -> record_success(circuit_breaker)
                                 [] OTHER -> circuit_breaker
        /\ IF search.need_browser_reset
             THEN \E o \in InitOutcomes :
                    /\ service' = initialize_browser(cleanup(svc), o)
                    /\ search' = [search EXCEPT !.result = f.result, !.outcome = f.outcome,
                                    !.pc = IF o = "warm" THEN "resetting" ELSE "done",
                                    !.sleep = IF o = "warm" THEN WarmUp ELSE 0]
                    /\ srLog' = LET l == [log EXCEPT !.cleanups = @ + 1, !.inits = @ + 1]
                                IN  IF o = "warm" THEN l ELSE Returned(l)
             ELSE /\ service' = svc
                  /\ search' = [search EXCEPT !.result = f.result, !.outcome = f.outcome,
                                              !.pc = "done"]
                  /\ srLog' = Returned(log)
        /\ UNCHANGED <<cbLast, cbStreak, cbProbes, cbHalfFail, rlVars, rtVars>>

\* the owner lets some time pass between two searches
Pause ==
    /\ search.pc \in {"idle", "done"}
    /\ circuit_breaker' = AgedCB(circuit_breaker, SearchTimeout)
    /\ rate_limiter' = AgedRL(rate_limiter, SearchTimeout)
    /\ UNCHANGED <<cbLast, cbStreak, cbProbes, cbHalfFail, rlPc, rlArg, rlWake,
                   rlLast, rlGranted, rtVars, scVars>>

Init ==
    /\ CBIdle(FailureThreshold, CoolingPeriod)
    /\ RLIdle(ServiceRate, ServiceBurst, now)
    /\ RTIdle
    /\ SCIdle

Next ==
    \/ \E a \in BOOLEAN, b \in Blacklists, p \in [1..1 -> Pages] \cup [1..2 -> Pages] :
          SearchCall(a, b, p)
    \/ SearchInit
    \/ SearchWake
    \/ SearchQuery
    \/ SearchReturn
    \/ Pause

Spec == Init /\ [][Next]_vars

\* the event loop runs the task of the call whenever it can run
FairSpec ==
    /\ Init
    /\ [][Next]_vars
    /\ WF_vars(SearchInit)
    /\ WF_vars(SearchWake)
    /\ WF_vars(SearchQuery)
    /\ WF_vars(SearchReturn)

\* The searches of an owner that goes on searching, with time passing
\* between its searches, when what SoundCloud shows for every query is the
\* track searched for, by the artist searched for, and nothing is blacklisted.
Found(artist_name) ==
    [k \in 1..search_queries(artist_name) |-> [loads |-> TRUE, items |-> <<Track("u1", TRUE)>>]]

HealNext ==
    \/ \E a \in BOOLEAN : SearchCall(a, {}, Found(a))
    \/ SearchInit
    \/ SearchWake
    \/ SearchQuery
    \/ SearchReturn
    \/ Pause

HealSpec ==
    /\ Init
    /\ [][HealNext]_vars
    /\ WF_vars(\E a \in BOOLEAN : SearchCall(a, {}, Found(a)))
    /\ WF_vars(SearchInit)
    /\ WF_vars(SearchWake)
    /\ WF_vars(SearchQuery)
    /\ WF_vars(SearchReturn)
    /\ WF_vars(Pause)

---------------------------------------------------------------------------
(* convert_playlist: the loop over the tracks of a playlist.  It builds one *)
(* SoundCloudService, initializes it, and for each track awaits             *)
(* search_track under asyncio.wait_for with a timeout of 30 seconds.  The   *)
(* timer of wait_for is set before the search starts, so a search whose     *)
(* sleeps add up to 30 seconds is still in its last sleep when the timer    *)
(* fires: the task of the search is cancelled, its finally clause runs, and *)
(* wait_for raises asyncio.TimeoutError to the loop.                        *)

\* timeout=30 of the wait_for around search_track, in ticks
SearchDeadline == 30

\* the except asyncio.TimeoutError clause of the loop: cleanup of the old
\* service, a new SoundCloudService in its place (with the CircuitBreaker
\* and the RateLimiter its __init__ builds) and initialize_browser on it,
\* whose exception is logged and dropped
browser_recovery(svc, o) ==
    [ service |-> initialize_browser(SoundCloudService, o),
      circuit_breaker |-> CircuitBreaker(FailureThreshold, CoolingPeriod),
      rate_limiter |-> RateLimiter(ServiceRate, ServiceBurst, now) ]

\* the next track of the playlist is searched for; the loop passes the track
\* name and the joined artists (which may be empty) and no blacklist
ConvertSearch == \E a \in BOOLEAN, p \in [1..1 -> Pages] \cup [1..2 -> Pages] : SearchCall(a, {}, p)

\* a query whose sleep ends before the timer of wait_for fires
ConvertQuery == srLog.elapsed + SearchTimeout < SearchDeadline /\ SearchQuery

\* the timer of wait_for fires during the sleep of a query: CancelledError
\* goes through search_track (no except clause of it catches CancelledError,
\* so neither record_failure nor a counter of search_stats is reached), and
\* the loop recovers
ConvertTimeout ==
    /\ search.pc = "query"
    /\ search.i < search.search_queries
    /\ srLog.elapsed + SearchTimeout >= SearchDeadline
    /\ \E o \in InitOutcomes :
         LET r == browser_recovery(service, o)
         IN  /\ service' = r.service
             /\ circuit_breaker' = r.circuit_breaker
             /\ rate_limiter' = r.rate_limiter
    /\ search' = [search EXCEPT !.pc = "done", !.outcome = "Cancelled",
                                !.raised = "CancelledError"]
    /\ srLog' = Later(srLog, SearchDeadline - srLog.elapsed)
    /\ UNCHANGED <<cbLast, cbStreak, cbProbes, cbHalfFail, rlPc, rlArg, rlWake,
                   rlLast, rlGranted, rtVars>>

\* SoundCloudService() followed by initialize_browser(); when that raises,
\* the conversion ends before the loop
ConvertInit ==
    /\ CBIdle(FailureThreshold, CoolingPeriod)
    /\ RLIdle(ServiceRate, ServiceBurst, now)
    /\ RTIdle
    /\ service = initialize_browser(SoundCloudService, "ready")
    /\ search = NoSearch
    /\ srLog = NoLog

ConvertNext ==
    \/ ConvertSearch
    \/ SearchInit
    \/ SearchWake
    \/ ConvertQuery
    \/ ConvertTimeout
    \/ SearchReturn
    \/ Pause

ConvertSpec == ConvertInit /\ [][ConvertNext]_vars

---------------------------------------------------------------------------
(* Properties of the CircuitBreaker *)

\* the step is one call of the method op
CBCall(op) == cbLast'.n # cbLast.n /\ cbLast'.op = op

CBTransitions ==
    { <<"CLOSED", "OPEN">>, <<"OPEN", "HALF-OPEN">>,
      <<"HALF-OPEN", "CLOSED">>, <<"HALF-OPEN", "OPEN">> }

\* C1: in any sequence of can_execute, record_success and record_failure calls
\* the state changes only Closed->Open, Open->HalfOpen, HalfOpen->Closed or
\* HalfOpen->Open; never Open->Closed or Closed->HalfOpen in one step.
C1_OnlyLegalTransitions ==
    [][ circuit_breaker'.state # circuit_breaker.state
          => <<circuit_breaker.state, circuit_breaker'.state>> \in CBTransitions ]_vars

\* the breaker has opened and a probe's success has closed it again
C1_Witness ==
    /\ circuit_breaker.state = "CLOSED"
    /\ circuit_breaker.stats.circuit_opened_count >= 1
    /\ cbLast.op = "record_success"

C2_State ==
    /\ (cbStreak >= 0 /\ cbStreak < circuit_breaker.failure_threshold)
           => circuit_breaker.state = "CLOSED"
    /\ cbStreak >= circuit_breaker.failure_threshold
           => circuit_breaker.state = "OPEN"

C2_Step ==
    CBCall("can_execute") =>
      /\ (cbStreak >= 0 /\ cbStreak < circuit_breaker.failure_threshold)
             => cbLast'.ret
      /\ ( /\ cbStreak >= circuit_breaker.failure_threshold
           /\ now - circuit_breaker.last_failure_time < circuit_breaker.cooling_period )
             => ~cbLast'.ret

\* C2: from Closed with zero failures, after threshold record_failure calls with
\* no record_success in between the breaker is Open and a can_execute made
\* before the cooling period has elapsed returns false; after fewer failures
\* the breaker is still Closed and can_execute returns true.
C2_ThresholdOpens == [] C2_State /\ [][C2_Step]_vars

\* threshold failures in a row from Closed, then a rejected can_execute
C2_Witness ==
    /\ circuit_breaker.failure_threshold = MaxThreshold
    /\ cbStreak = circuit_breaker.failure_threshold
    /\ circuit_breaker.state = "OPEN"
    /\ cbLast.op = "can_execute"
    /\ ~cbLast.ret

\* C3: while the breaker is HalfOpen and no record_success or record_failure
\* has reported the probe's outcome, no second caller is admitted.
C3_AtMostOneProbe ==
    circuit_breaker.state = "HALF-OPEN" => cbProbes <= 1

C4_Step ==
    /\ (CBCall("record_failure") /\ circuit_breaker.state = "HALF-OPEN")
           => /\ circuit_breaker'.state = "OPEN"
              /\ circuit_breaker'.last_failure_time = now
    /\ ( /\ CBCall("can_execute")
         /\ cbHalfFail >= 0
         /\ now - cbHalfFail < circuit_breaker.cooling_period )
           => /\ ~cbLast'.ret
              /\ circuit_breaker'.state = "OPEN"

\* C4: a record_failure made while HalfOpen moves the breaker to Open at once,
\* whatever the failure count is, and restarts the cooling period: every
\* can_execute returns false until cooling_period has elapsed since that failure.
C4_HalfOpenFailureReopens == [][C4_Step]_vars

\* a probe failed, time has passed but not the cooling period, and a caller
\* has just been rejected
C4_Witness ==
    /\ cbHalfFail >= 0
    /\ now > cbHalfFail
    /\ now - cbHalfFail < circuit_breaker.cooling_period
    /\ cbLast.op = "can_execute"
    /\ ~cbLast.ret

C5_Step ==
    CBCall("record_success") =>
      /\ circuit_breaker'.failures = 0
      /\ circuit_breaker.state = "HALF-OPEN" => circuit_breaker'.state = "CLOSED"
      /\ circuit_breaker.state \in {"CLOSED", "OPEN"}
             => /\ circuit_breaker'.state = circuit_breaker.state
                /\ circuit_breaker'.last_failure_time
                       = circuit_breaker.last_failure_time

\* C5: record_success sets the failure count to 0 in every state, moves
\* HalfOpen to Closed, and leaves state and last_failure_time unchanged when
\* the breaker is Closed or Open.
C5_RecordSuccessEffect == [][C5_Step]_vars

\* a success recorded while Open: the count is reset, the circuit stays open
C5_Witness ==
    /\ cbLast.op = "record_success"
    /\ circuit_breaker.state = "OPEN"
    /\ circuit_breaker.failures = 0
    /\ circuit_breaker.stats.failed_calls > 0

C28_Step ==
    (CBCall("record_failure") /\ circuit_breaker.state = "OPEN") =>
      /\ circuit_breaker'.state = "OPEN"
      /\ circuit_breaker'.stats.circuit_opened_count
             = circuit_breaker.stats.circuit_opened_count
      /\ circuit_breaker'.failures = Min(circuit_breaker.failures + 1, MaxFailures)
      /\ circuit_breaker'.stats.failed_calls = Bump(circuit_breaker.stats.failed_calls)
      /\ circuit_breaker'.last_failure_time = now
      /\ \A d \in 0..circuit_breaker.cooling_period :
             can_execute(AgedCB(circuit_breaker', d), now).ret
               <=> d >= circuit_breaker.cooling_period

\* C28: a record_failure made while the breaker is OPEN leaves it OPEN and
\* does not count an opening; it increments failures and sets
\* last_failure_time to now, so the cooling period starts again: can_execute
\* rejects until cooling_period has passed since that failure.
C28_FailureWhileOpen == [][C28_Step]_vars

\* with no can_execute made, a failure was reported after the one that opened
\* the circuit
C28_Witness ==
    /\ circuit_breaker.stats.total_calls = 0
    /\ circuit_breaker.state = "OPEN"
    /\ circuit_breaker.failures > circuit_breaker.failure_threshold
    /\ circuit_breaker.stats.circuit_opened_count = 1
    /\ circuit_breaker.last_failure_time = now
    /\ cbLast.op = "record_failure"

---------------------------------------------------------------------------
(* Properties of the RateLimiter *)

\* the step is one acquire call
RLCall == rlLast'.k # rlLast.k

\* the bucket after the refill of an acquire call made now
Refilled ==
    Min(rate_limiter.burst * TokenUnits,
        rate_limiter.tokens + (now - rate_limiter.last_refill) * rate_limiter.rate)

\* C6: after any sequence of acquire(n) and wait_for_token(n) calls with n >= 1
\* and a non-decreasing clock, 0 <= tokens <= burst.
C6_TokensInRange ==
    /\ rate_limiter.tokens >= 0
    /\ rate_limiter.tokens <= rate_limiter.burst * TokenUnits

\* a grant has emptied the bucket, and it has been refilled to the cap before
C6_Witness ==
    /\ rate_limiter.tokens = 0
    /\ rlLast.ret
    /\ rlLast.n = MaxBurst
    /\ rate_limiter.burst = MaxBurst
    /\ rate_limiter.stats.limited_requests > 0

\* C7: while no time elapses, at most burst acquire(1) calls of concurrent
\* tasks return true.
C7_AtMostBurstGrants ==
    rlGranted <= rate_limiter.burst

\* burst calls were granted in one instant and the next one was refused
C7_Witness ==
    /\ rate_limiter.burst = MaxBurst
    /\ rlGranted = rate_limiter.burst
    /\ rlLast.n = 1
    /\ ~rlLast.ret

C8_Step ==
    RLCall =>
      /\ rlLast'.ret <=> Refilled >= rlLast'.n * TokenUnits
      /\ rate_limiter'.last_refill = now
      /\ rate_limiter'.stats.total_requests = Bump(rate_limiter.stats.total_requests)
      /\ rlLast'.ret =>
           /\ rate_limiter'.tokens = Refilled - rlLast'.n * TokenUnits
           /\ rate_limiter'.stats.allowed_requests
                  = Bump(rate_limiter.stats.allowed_requests)
           /\ rate_limiter'.stats.limited_requests
                  = rate_limiter.stats.limited_requests
      /\ ~rlLast'.ret =>
           /\ rate_limiter'.tokens = Refilled
           /\ rate_limiter'.stats.limited_requests
                  = Bump(rate_limiter.stats.limited_requests)
           /\ rate_limiter'.stats.allowed_requests
                  = rate_limiter.stats.allowed_requests

\* C8: acquire(n) refills tokens to min(burst, tokens + elapsed*rate) and then
\* returns true iff the refilled tokens >= n; on true exactly n tokens are
\* subtracted and allowed_requests grows by one, on false no token is
\* subtracted and limited_requests grows by one.
C8_AcquireEffect == [][C8_Step]_vars

\* a refused call that left a partly refilled bucket untouched
C8_Witness ==
    /\ ~rlLast.ret
    /\ rate_limiter.tokens > 0
    /\ rate_limiter.last_refill = now
    /\ rate_limiter.stats.limited_requests = 1
    /\ rate_limiter.stats.allowed_requests = 1

\* task p is inside wait_for_token(n) with n <= burst
Waiting(p) == rlPc[p] = "sleeping" /\ rlArg[p] <= rate_limiter.burst

\* wait_for_token returns only in a step in which its own acquire(n) succeeds
C9_ReturnStep ==
    \A p \in Waiters :
      ( \/ rlPc[p] = "sleeping" /\ rlPc'[p] = "idle"
        \/ RLCall /\ rlLast'.task = p /\ rlLast'.returned )
        => /\ RLCall
           /\ rlLast'.task = p
           /\ rlLast'.ret
           /\ rlPc[p] = "sleeping" => rlLast'.n = rlArg[p]

\* C9 as stated: wait_for_token(n) returns only after one of its own
\* acquire(n) calls has succeeded and, with rate > 0 and 1 <= n <= burst and
\* time advancing, every wait_for_token call eventually returns, also when
\* other tasks call acquire or wait_for_token on the same limiter.
C9_EveryWaiterReturns ==
    /\ [][C9_ReturnStep]_vars
    /\ \A p \in Waiters : Waiting(p) ~> (rlPc[p] = "idle")

\* tokens have just been granted to a task other than p
GrantedToOther(p) == rlLast.ret /\ rlLast.task # p

\* C9 amended: wait_for_token(n) returns only after one of its own acquire(n)
\* calls has succeeded and, with rate > 0 and 1 <= n <= burst and time
\* advancing, a waiter returns unless tokens keep being granted to other
\* callers: a waiter that never returns sees grants to others again and again.
C9_WaiterReturnsUnlessOutrun ==
    /\ [][C9_ReturnStep]_vars
    /\ \A p \in Waiters : Waiting(p) ~> (rlPc[p] = "idle" \/ GrantedToOther(p))

\* a waiter was refused, has slept, and then got its tokens
C9_Witness ==
    \E p \in Waiters :
      /\ rlPc[p] = "idle"
      /\ rlLast.task = p
      /\ rlLast.returned
      /\ rlLast.resumed
      /\ rlLast.ret
      /\ rlLast.n = MaxTokens
      /\ rate_limiter.stats.limited_requests >= 1

---------------------------------------------------------------------------
(* Properties of retry_with_exponential_backoff *)

\* invocation i of func failed with an exception retry catches
RetryableFailure(i) ==
    ~rtCalls[i].ok /\ rtCalls[i].exc.kind \in retry.exceptions

\* C10: retry invokes func at most max_retries times; it stops at the first
\* invocation that succeeds and returns that invocation's result with no
\* further invocation; if all max_retries invocations fail with retryable
\* failures it raises the failure of the last invocation.
C10_RetryOutcome ==
    LET n == Len(rtCalls)
    IN  /\ n <= retry.max_retries
        /\ \A i \in 1..(n - 1) : ~rtCalls[i].ok
        /\ (n > 0 /\ rtCalls[n].ok)
               => retry.pc = "returned" /\ retry.result = rtCalls[n].val
        /\ retry.pc = "returned" => (n > 0 /\ rtCalls[n].ok)
        /\ (n > 0 /\ n = retry.max_retries /\ \A i \in 1..n : RetryableFailure(i))
               => retry.pc = "raised" /\ retry.raised = rtCalls[n].exc

\* every one of MaxRetries invocations failed and the last failure was raised
C10_Witness ==
    /\ retry.max_retries = MaxRetries
    /\ Len(rtCalls) = MaxRetries
    /\ \A i \in 1..Len(rtCalls) : RetryableFailure(i)
    /\ retry.pc = "raised"
    /\ retry.raised.id = MaxRetries
    /\ Len(rtSleeps) = MaxRetries - 1

\* C11: when an invocation of func fails with a failure that is not in
\* `exceptions`, retry raises that failure at once: it does not sleep after it
\* and does not invoke func again, whatever number of attempts remains.
C11_NonRetryablePropagates ==
    LET n == Len(rtCalls)
    IN  /\ \A i \in 1..(n - 1) : RetryableFailure(i)
        /\ (n > 0 /\ ~rtCalls[n].ok /\ ~RetryableFailure(n))
               => /\ retry.pc = "raised"
                  /\ retry.raised = rtCalls[n].exc
                  /\ Len(rtSleeps) = n - 1

\* the first of MaxRetries attempts failed with a failure retry does not catch
C11_Witness ==
    /\ retry.max_retries = MaxRetries
    /\ retry.exceptions = {"Transient"}
    /\ Len(rtCalls) = 1
    /\ rtCalls[1].exc.kind = "Fatal"
    /\ retry.pc = "raised"
    /\ retry.raised = rtCalls[1].exc
    /\ rtSleeps = <<>>

\* C27: one sleep between two consecutive attempts and none after the attempt
\* that ends the call (max_retries - 1 sleeps when every attempt failed); the
\* first sleep lasts initial_delay, each later one
\* min(previous sleep * backoff_factor, max_delay), so no sleep after the
\* first is longer than max_delay.
C27_Sleeps ==
    LET n == Len(rtCalls)
        k == Len(rtSleeps)
    IN  /\ k = IF retry.pc = "loop" \/ n = 0 THEN n ELSE n - 1
        /\ (retry.pc = "raised" /\ n = retry.max_retries /\ n > 0) => k = retry.max_retries - 1
        /\ k >= 1 => rtSleeps[1] = retry.initial_delay
        /\ \A j \in 2..k :
              /\ rtSleeps[j] = Min(rtSleeps[j - 1] * retry.backoff_factor, retry.max_delay)
              /\ rtSleeps[j] <= retry.max_delay

\* every attempt failed; the second sleep was cut down to max_delay
C27_Witness ==
    /\ retry.pc = "raised"
    /\ retry.max_retries = MaxRetries
    /\ Len(rtCalls) = MaxRetries
    /\ Len(rtSleeps) = MaxRetries - 1
    /\ rtSleeps[1] = retry.initial_delay
    /\ rtSleeps[1] * retry.backoff_factor > retry.max_delay
    /\ rtSleeps[2] = retry.max_delay

\* the call of retry_with_exponential_backoff has ended
RetryEnded == retry.pc \in {"returned", "raised"}

\* C30: with max_retries >= 1 func is invoked at least once and what the call
\* raises is a failure raised by an invocation of func; with max_retries = 0
\* func is never invoked and the call ends by raising an error that is not
\* one of func, and returns no value.
C30_ZeroRetries ==
    /\ (RetryEnded /\ retry.max_retries >= 1) =>
          /\ Len(rtCalls) >= 1
          /\ retry.pc = "raised" =>
                \E i \in 1..Len(rtCalls) : ~rtCalls[i].ok /\ rtCalls[i].exc = retry.raised
    /\ retry.max_retries = 0 =>
          /\ rtCalls = <<>>
          /\ retry.pc # "returned"
          /\ retry.pc = "raised" =>
                /\ retry.raised.kind \notin Kinds
                /\ retry.raised.kind = "TypeError"

\* a call with max_retries = 0 has ended without an invocation
C30_Witness ==
    /\ retry.max_retries = 0
    /\ retry.pc = "raised"
    /\ retry.raised.kind = "TypeError"
    /\ rtCalls = <<>>
    /\ rtSleeps = <<>>

---------------------------------------------------------------------------
(* Properties of SoundCloudService.search_track *)

\* the step is a call of search_track
SearchCalled == srLog'.n # srLog.n

\* the breaker is open and its cooling period has not elapsed
Cooling(cb) == cb.state = "OPEN" /\ now - cb.last_failure_time < cb.cooling_period

C12_Step ==
    (SearchCalled /\ Cooling(circuit_breaker)) =>
      /\ search'.pc = "done"
      /\ search'.outcome = "Rejected"
      /\ search'.result = NoTrack
      /\ search'.raised = "none"
      /\ srLog'.gets = 0 /\ srLog'.inits = 0 /\ srLog'.cleanups = 0
      /\ srLog'.failures = 0 /\ srLog'.successes = 0 /\ ~srLog'.token
      /\ rate_limiter' = rate_limiter
      /\ service'.browser = service.browser
      /\ service'.initialized = service.initialized
      /\ circuit_breaker' = [circuit_breaker EXCEPT !.stats.total_calls = Bump(@),
                                                    !.stats.rejected_calls = Bump(@)]
      /\ service'.search_stats =
            [service.search_stats EXCEPT !.total_searches = Count(@),
                                         !.circuit_breaker_rejections = Count(@)]

\* C12: when can_execute returns false, search_track returns None (Rejected)
\* without a browser.get, without initializing or resetting the browser,
\* without taking a token of the rate limiter and without record_success or
\* record_failure; only total_searches, circuit_breaker_rejections and the
\* breaker's total_calls and rejected_calls change.
C12_RejectionTouchesNothing == [][C12_Step]_vars

\* a search was rejected while the browser session was up
C12_Witness ==
    /\ search.pc = "done"
    /\ search.outcome = "Rejected"
    /\ service.initialized
    /\ Cooling(circuit_breaker)
    /\ service.search_stats.circuit_breaker_rejections = 1

C13_Step ==
    /\ (srLog.completed = FailureThreshold - 1 /\ srLog'.completed = FailureThreshold)
          => Cooling(circuit_breaker')
    /\ (SearchCalled /\ srLog.completed = FailureThreshold /\ Cooling(circuit_breaker))
          => /\ search'.outcome = "Rejected"
             /\ search'.pc = "done"
             /\ srLog'.gets = 0

\* C13: on a service whose breaker started Closed, once failure_threshold
\* search_track calls have returned, none of them with a track, the breaker is
\* Open, and the next call made before the cooling period has elapsed returns
\* None (Rejected) without a browser.get.
C13_ThresholdSearchesOpen == [][C13_Step]_vars

\* three searches whose pages do not load have returned and a fourth has been
\* rejected
C13_Witness ==
    /\ srLog.completed = FailureThreshold
    /\ search.pc = "done"
    /\ search.outcome = "Rejected"
    /\ \A k \in 1..Len(search.pages) : ~search.pages[k].loads
    /\ srLog.gets = 0
    /\ circuit_breaker.stats.circuit_opened_count = 1

\* the call has passed the breaker and has returned or raised
Finished == search.pc = "done" /\ search.outcome # "Rejected"

\* the call has gone through its queries
Searched == search.pc = "done" /\ search.outcome \notin {"Rejected", "InitFailed", "Raised"}

C16_NothingPropagates ==
    /\ search.raised = "none"
    /\ search.pc = "done"
          => search.outcome \in {"Match", "Fallback", "NotFound", "InitFailed", "Rejected"}

\* the lazy initialization raised and the call returned None
C16_Witness ==
    /\ search.pc = "done"
    /\ search.outcome = "InitFailed"
    /\ search.result = NoTrack
    /\ srLog.inits = 1
    /\ srLog.failures = 1

\* C17: if the running best after a query's tracks exceeds 0.8, search_track
\* returns that track and issues no further query; in particular, when the
\* first query shows a track whose title and user equal the track and artist
\* searched for, that track is returned and the track-only query is not issued.
C17_EarlyExit ==
    ( /\ Searched
      /\ search.pages[1].loads
      /\ search.pages[1].items # <<>>
      /\ search.pages[1].items[1].exact
      /\ search.pages[1].items[1].url \notin search.blacklisted_urls )
      => /\ search.result = search.pages[1].items[1]
         /\ search.i = 1

\* some query shows a track that is not blacklisted
SomeUsable ==
    \E k \in 1..Len(search.pages) :
      /\ search.pages[k].loads
      /\ \E j \in 1..Len(search.pages[k].items) :
            search.pages[k].items[j].url \notin search.blacklisted_urls

\* C18: if all queries are exhausted and at least one track that is not
\* blacklisted was shown by some query, search_track returns a track (the
\* first seen, as the low-confidence fallback, when none scores above 0.5) and
\* not None; None is returned only when no query showed a usable track.
C18_FallbackNotNone ==
    (Searched /\ SomeUsable) => search.result # NoTrack

\* the limiter has let the call pass and the call has not returned
Running == srLog.token /\ search.pc # "done"

C20_Step ==
    (~SearchCalled /\ search'.i # search.i /\ srLog'.exc # "none") =>
      /\ search'.need_browser_reset
      /\ search'.i = search.i + 1
      /\ search'.pc = "query"
      /\ search'.outcome = "none"
      /\ search'.best_match = search.best_match
      /\ search'.all_results = search.all_results

\* C20: when a query times out or fails, need_browser_reset is set and the
\* loop goes on to the next query: the failed query does not make search_track
\* return, the call returns only after every query of the list, and
\* best_match and all_results are as the earlier queries left them.
C20_FailedQueryGoesOn ==
    /\ [][C20_Step]_vars
    /\ [](Searched => search.i = search.search_queries)

\* both queries of a call timed out and the call went on to its final decision
C20_Witness ==
    /\ Searched
    /\ search.search_queries = 2
    /\ search.i = 2
    /\ srLog.exc = "TimeoutError"
    /\ search.need_browser_reset
    /\ service.search_stats.timeout_searches = 2

\* a query of the running call has just ended by an exception
QueryFailed == ~SearchCalled /\ search'.i # search.i /\ srLog'.exc # "none"

C21_Step ==
    QueryFailed =>
      /\ srLog'.failures = srLog.failures + 1
      /\ circuit_breaker'.stats.failed_calls = Bump(circuit_breaker.stats.failed_calls)
      /\ circuit_breaker'.last_failure_time = now

\* C21: every query that ends in a timeout or an error makes one
\* record_failure call on the breaker at that point: the call is counted, the
\* breaker's failed_calls goes up by one and last_failure_time is the time of
\* the failed query.
C21_FailedQueryRecorded == [][C21_Step]_vars

\* the step in which the loop over the queries has ended and the final
\* decision and the finally clause run
LoopEnded == ~SearchCalled /\ search.pc = "query" /\ search'.pc \in {"resetting", "done"}

C22_Step ==
    /\ (LoopEnded /\ search.need_browser_reset) =>
         /\ srLog'.cleanups = srLog.cleanups + 1
         /\ srLog'.inits = srLog.inits + 1
         /\ service'.initialized => service'.browser
    /\ (LoopEnded /\ ~search.need_browser_reset) =>
         /\ srLog'.cleanups = srLog.cleanups
         /\ srLog'.inits = srLog.inits
         /\ service'.browser = service.browser
         /\ service'.initialized = service.initialized
    /\ (~SearchCalled /\ srLog'.cleanups # srLog.cleanups) =>
         (LoopEnded /\ search.need_browser_reset)

\* C22: when need_browser_reset was set during a search, cleanup and then
\* initialize_browser are called once the queries have ended, whatever the
\* search returns, and no query of a later search is issued on a service that
\* is not initialized; when need_browser_reset was not set, the search calls
\* neither and leaves the browser as it is.
C22_ResetAfterSearch ==
    /\ [][C22_Step]_vars
    /\ [](search.pc = "query" => (service.initialized /\ service.browser))
    /\ [](search.pc = "done" =>
            srLog.cleanups = IF search.need_browser_reset THEN 1 ELSE 0)

\* a search whose queries timed out has returned with the browser torn down
\* and set up again
C22_Witness ==
    /\ Searched
    /\ search.need_browser_reset
    /\ srLog.cleanups = 1
    /\ srLog.inits >= 1
    /\ service.initialized
    /\ service.browser

\* the step is one turn of the loop over the queries
QueryIssued == ~SearchCalled /\ search'.i # search.i

C23_Step ==
    QueryIssued =>
      LET b == query_body(search, search.pages[search.i + 1])
      IN  /\ srLog'.exc = b.exc
          /\ srLog'.gets = srLog.gets + b.gets
          /\ service'.search_stats.timeout_searches = service.search_stats.timeout_searches
          /\ (b.exc = "none" /\ ~b.need_browser_reset)
               => search'.need_browser_reset = search.need_browser_reset

\* C23: timeout_context raises TimeoutError only when the code inside it takes
\* longer than timeout_seconds: the body of a query runs, and a body that
\* finishes in time leaves the with statement as the body itself ends, with
\* timeout_searches not incremented and need_browser_reset not set by the
\* timeout.
C23_TimeoutOnlyWhenLate == [][C23_Step]_vars

\* C25: the breaker heals through the searches: when every admitted search
\* has its track to find, searches go on being issued and time passes, a
\* breaker that is OPEN gets back to CLOSED with failures = 0.
C25_SelfHeals ==
    (circuit_breaker.state = "OPEN")
      ~> (circuit_breaker.state = "CLOSED" /\ circuit_breaker.failures = 0)

\* the three counters of the ways a search ends
OutcomeCounters == {"successful_searches", "failed_searches", "circuit_breaker_rejections"}

\* the step in which a call counts its outcome: it ends the call, or goes on
\* to the sleep of the reset
OutcomeCounted ==
    /\ search'.pc \in {"done", "resetting"}
    /\ SearchCalled \/ search.pc \notin {"done", "resetting"}

C29_Step ==
    LET st == service.search_stats
        st2 == service'.search_stats
    IN  /\ st2.total_searches = IF SearchCalled THEN Count(st.total_searches)
                                                ELSE st.total_searches
        /\ OutcomeCounted =>
              \E c \in OutcomeCounters :
                /\ st2[c] = Count(st[c])
                /\ \A o \in OutcomeCounters \ {c} : st2[o] = st[o]
        /\ ~OutcomeCounted => \A c \in OutcomeCounters : st2[c] = st[c]

---------------------------------------------------------------------------
(* Properties of convert_playlist *)

\* the step ends a search by the timeout of wait_for and the recovery after it
TimedOut == search.outcome # "Cancelled" /\ search'.outcome = "Cancelled"

\* the step is one of the loop between two searches
Between == ~SearchCalled /\ search.pc \in {"idle", "done"}

\* the tokens an acquire would find d ticks after the tokens of this state
RefilledAfter(d) == Min(rate_limiter.burst * TokenUnits, Refilled + d * rate_limiter.rate)

C26_Step ==
    /\ TimedOut =>
         /\ circuit_breaker'.state = circuit_breaker.state
         /\ circuit_breaker'.failures = circuit_breaker.failures
         /\ Refilled' = RefilledAfter(SearchDeadline - srLog.elapsed)
    /\ Between =>
         /\ circuit_breaker'.state = circuit_breaker.state
         /\ circuit_breaker'.failures = circuit_breaker.failures
         /\ Refilled' = RefilledAfter(SearchTimeout)

\* C26: from one search of a conversion to the next the breaker and the
\* limiter are the same objects with the state the last search left: no step
\* of the loop, the recovery after a timed-out search included, resets the
\* breaker's state, its failure count or the limiter's tokens.
C26_StateCarriesOver == [][C26_Step]_vars

=============================================================================
